---- MODULE Spec2Model ----
(***************************************************************************)
(* Labs64.IO AuditFlow: the plugin dispatch services (sink.py and          *)
(* transformer.py), the retrying delivery loop (webhook_sink.process and   *)
(* NetLicensingClient._request) and the NetLicensing provisioning          *)
(* workflow (netlicensing_sink.process).                                   *)
(*                                                                         *)
(* Three specifications share the module: SpecDispatch, SpecRetry and      *)
(* SpecProvision.  Each leaves the other parts' variables unchanged.       *)
(***************************************************************************)
EXTENDS Integers, Sequences, FiniteSets, TLC

VARIABLES
    \* ---- dispatch service (one running service process) ----
    service,            \* "sink" (sink.py) or "transform" (transformer.py)
    requestsInstalled,  \* whether the third-party package `requests` is importable
    sysPath,            \* sys.path as the service left it after start-up
    externalDir,        \* files of sinks_bootstrap/ (transformers_bootstrap/)
    sysModules,         \* sys.modules: the interpreter's cache of loaded modules
    last,               \* the last request handled and what the handler did
    \* ---- retrying delivery (one invocation of the retry loop) ----
    rClient,            \* "webhook" (process) or "netlicensing" (_request)
    rRetryCount,        \* retry_count
    rMethod,            \* the HTTP method configured
    rPc,                \* where the loop stands
    rAttempt,           \* the loop variable `attempt`
    rLastError,         \* last_error
    rSent,              \* outbound requests issued so far
    rOutcomes,          \* the outcome of each outbound request, in order
    rSleeps,            \* the argument of each time.sleep call, in order
    rResult,            \* what the invocation returned or raised
    \* ---- provisioning (one invocation of netlicensing_sink.process) ----
    pPc,                \* where process / _process_item stands
    pProps,             \* the properties as process read them
    pEventType,         \* event_data.get('eventType', '')
    pTransaction,       \* the status of extra.transaction, or that it is absent
    pItems,             \* purchaseOrder.items
    pIdx,               \* index of the item the for loop is at
    pItem,              \* locals of _process_item for the current item
    pCreatedLicensees,  \* created_licensees of process
    pCreatedLicenses,   \* created_licenses of process
    pErrors,            \* errors of process
    pResult,            \* what process returned or raised
    bLicensees,         \* backend: product of each licensee created, by number
    bLicenses,          \* backend: the licenses created, by number
    bCalls,             \* backend: the requests the client made, in order
    bFailed,            \* backend: the operations that failed after their retries
    \* ---- concurrent requests for one plugin (one event loop) ----
    qPc,                \* where the handler of each request stands
    qRunning,           \* the request whose coroutine the event loop runs
    qEntry,             \* the entry of sys.modules for the plugin
    qLoads,             \* how often the plugin's file was executed to the end
    qImported,          \* what import_module returned to each request
    qInvoked,           \* the module whose entry function each request called
    qRacing,            \* the requests pending when the plugin was first loaded
    \* ---- one call of _create_license ----
    lPc,                \* where _create_license stands
    lTemplateType,      \* licenseType of the template in the backend
    lExtra,             \* item['extra']
    lProperties,        \* the dict `properties`
    lPosted,            \* the data of each POST license, in order
    lFetchFailed        \* whether get_license_template raised

dispatchVars == <<service, requestsInstalled, sysPath, externalDir, sysModules, last>>

retryVars == <<rClient, rRetryCount, rMethod, rPc, rAttempt, rLastError,
               rSent, rOutcomes, rSleeps, rResult>>

provisionVars == <<pPc, pProps, pEventType, pTransaction, pItems, pIdx, pItem,
                   pCreatedLicensees, pCreatedLicenses, pErrors, pResult,
                   bLicensees, bLicenses, bCalls, bFailed>>

raceVars == <<qPc, qRunning, qEntry, qLoads, qImported, qInvoked, qRacing>>

licenseVars == <<lPc, lTemplateType, lExtra, lProperties, lPosted, lFetchFailed>>

vars == <<dispatchVars, retryVars, provisionVars, raceVars, licenseVars>>

(***************************************************************************)
(*                        PLUGIN FILES AND MODULES                         *)
(***************************************************************************)

\* No file of that name in a directory / no entry in sys.modules.
Absent == [load |-> "absent", entry |-> FALSE]

\* What a module file does when it is executed by the import system, and
\* whether the loaded module has the entry attribute (process / transform).
PluginModule    == [load |-> "ok", entry |-> TRUE]
NoEntryModule   == [load |-> "ok", entry |-> FALSE]
SyntaxErrModule == [load |-> "SyntaxError", entry |-> FALSE]
\* a module whose top-level `import x` names a package that is not installed
MissingDepModule == [load |-> "ModuleNotFoundError", entry |-> FALSE]

ModuleKinds == {PluginModule, NoEntryModule, SyntaxErrModule, MissingDepModule}

Services == {"sink", "transform"}

\* The plugin identifiers a request may carry.  "json" is a module of the
\* standard library, ".rel" a relative module name, "custom" an operator's
\* plugin, "missing" a name no directory holds.
AllIds == {"logging_sink", "webhook_sink", "audit_loki", "audit_opensearch",
           "custom", "json", ".rel", "missing"}

\* Identifiers an operator may drop into the override directory: a name
\* of its own, or the name of a built-in plugin.
ExternalIds(svc) ==
    CASE svc = "sink" -> {"logging_sink", "custom"}
      [] svc = "transform" -> {"audit_loki", "custom"}
      [] OTHER -> {}

\* The identifiers requests carry.
RequestIds(svc) ==
    CASE svc = "sink" ->
            {"logging_sink", "webhook_sink", "custom", "json", ".rel", "missing"}
      [] svc = "transform" ->
            {"audit_loki", "audit_opensearch", "custom", "json", ".rel", "missing"}
      [] OTHER -> {}

\* `import requests` at the top of webhook_sink.py (and of the loki,
\* opensearch and netlicensing sinks): the module loads only where the
\* package is installed.
NeedsRequests(installed) ==
    IF installed THEN PluginModule ELSE MissingDepModule

\* The built-in directory: sinks/ of the sink service, transformers/ of the
\* transform service.  Fixed for the life of the process.
InternalDir(svc, installed) ==
    [id \in AllIds |->
        IF svc = "sink"
        THEN CASE id = "logging_sink" -> PluginModule
               [] id = "webhook_sink" -> NeedsRequests(installed)
               [] OTHER -> Absent
        ELSE CASE id = "audit_loki" -> PluginModule
               [] id = "audit_opensearch" -> PluginModule
               [] OTHER -> Absent]

\* What sys.path already holds when the service appends its directories:
\* the interpreter's standard library (json has neither process nor
\* transform).
PreExistingPath ==
    [id \in AllIds |-> IF id = "json" THEN NoEntryModule ELSE Absent]

\* (mutant) the override directory appended before the built-in one
SearchPathInternalLast(externalExists) ==
    IF externalExists THEN <<"pre", "external", "internal">>
                      ELSE <<"pre", "internal">>

\* sys.path.append(internal); sys.path.append(external) if it exists.
SearchPath(externalExists) ==
    IF externalExists THEN <<"pre", "internal", "external">>
                      ELSE <<"pre", "internal">>

DirContents(dir) ==
    CASE dir = "pre" -> PreExistingPath
      [] dir = "internal" -> InternalDir(service, requestsInstalled)
      [] dir = "external" -> externalDir

\* A relative name: importlib.import_module(name) without a package
\* raises TypeError before any search.
IsRelative(id) == id = ".rel"

\* The path-based finder: the first directory of sys.path that holds the
\* name decides; later directories are not consulted.
RECURSIVE FindOrigin(_, _)
FindOrigin(id, path) ==
    IF path = <<>> THEN "none"
    ELSE IF DirContents(Head(path))[id] # Absent THEN Head(path)
    ELSE FindOrigin(id, Tail(path))

NotLoaded == [origin |-> "none", module |-> Absent]

\* (mutant) sys.modules never consulted: every import searches sys.path
IsCachedNever(id) == FALSE

\* import_module returns the entry of sys.modules when there is one.
IsCached(id) == sysModules[id] # NotLoaded

\* importlib.import_module(id): sys.modules first, then sys.path; the
\* found file is executed; a failed execution is not cached.
\* exc is "none", "ModuleNotFoundError" or "Exception" (any other).
ImportModule(id) ==
    IF IsRelative(id)
    THEN [exc |-> "Exception", cause |-> "TypeError", found |-> "none",
          loaded |-> NotLoaded]
    ELSE IF IsCached(id)
    THEN [exc |-> "none", cause |-> "none", found |-> sysModules[id].origin,
          loaded |-> sysModules[id]]
    ELSE LET origin == FindOrigin(id, sysPath) IN
         IF origin = "none"
         THEN [exc |-> "ModuleNotFoundError", cause |-> "ModuleNotFoundError",
               found |-> "none", loaded |-> NotLoaded]
         ELSE LET file == DirContents(origin)[id] IN
              IF file.load = "ok"
              THEN [exc |-> "none", cause |-> "none", found |-> origin,
                    loaded |-> [origin |-> origin, module |-> file]]
              ELSE [exc |-> IF file.load = "ModuleNotFoundError"
                            THEN "ModuleNotFoundError" ELSE "Exception",
                    cause |-> file.load, found |-> origin, loaded |-> NotLoaded]

(***************************************************************************)
(*                     WHAT A PLUGIN CALL MAY DO                           *)
(***************************************************************************)

\* Python values a plugin may return: None, an empty dict, a non-empty
\* dict, a tuple and a set.
PyValues == {"None", "{}", "{'sent': True}", "(1, 2)", "{1, 2}"}

\* bool(v)
Truthy(v) == v \in {"{'sent': True}", "(1, 2)", "{1, 2}"}

DefaultResult == "Event sent to destination"

\* json.dumps as JSONResponse.render applies it: a tuple becomes an array,
\* a set is not serializable (TypeError).
JsonDumps(v) ==
    CASE v = "None" -> "null"
      [] v = "{}" -> "{}"
      [] v = "{'sent': True}" -> "{\"sent\": true}"
      [] v = "(1, 2)" -> "[1, 2]"
      [] v = "{1, 2}" -> "TypeError"
      [] v = DefaultResult -> "\"Event sent to destination\""

NoOutcome == [t |-> "none", v |-> "None", exc |-> "none", code |-> 0, msg |-> "none"]

\* The call returns a value, or raises: an ordinary Exception, a
\* fastapi.HTTPException carrying its own status code, or a BaseException
\* that is no Exception (SystemExit, KeyboardInterrupt).
Outcomes ==
    {[t |-> "return", v |-> v, exc |-> "none", code |-> 0, msg |-> "none"] :
        v \in PyValues}
    \cup {[t |-> "raise", v |-> "None", exc |-> "Exception", code |-> 0, msg |-> "boom"],
          [t |-> "raise", v |-> "None", exc |-> "HTTPException", code |-> 404, msg |-> "gone"],
          [t |-> "raise", v |-> "None", exc |-> "BaseException", code |-> 0, msg |-> "exit"]}

\* What the entry function of a module of the given origin may do.  The
\* built-in plugins return a non-empty dict or raise an ordinary
\* exception (ValueError, RuntimeError, ...); an operator's plugin may do
\* anything.
PluginOutcomes(origin) ==
    IF origin = "external"
    THEN Outcomes
    ELSE {o \in Outcomes : \/ (o.t = "return" /\ o.v = "{'sent': True}")
                           \/ (o.t = "raise" /\ o.exc = "Exception")}

(***************************************************************************)
(*                          DISPATCH HANDLER                               *)
(***************************************************************************)

Response(status, error, cause, body) ==
    [status |-> status, error |-> error, cause |-> cause, body |-> body]

NoBody == [status |-> "none", sink |-> "none", result |-> "none"]

\* (mutant) the default text whatever the plugin returned
SinkResultNever(result) == DefaultResult

\* "result": result if result else "Event sent to destination"
SinkResult(result) == IF Truthy(result) THEN result ELSE DefaultResult

\* The 200 response: the sink's envelope, or the transformer's bare value.
\* JSONResponse(content=...) serializes inside the try block: a value
\* json.dumps refuses raises TypeError there, which the outer handler
\* turns into 500.
SuccessResponse(svc, id, result) ==
    LET content == IF svc = "sink" THEN SinkResult(result) ELSE result IN
    IF JsonDumps(content) = "TypeError"
    THEN Response(500, "unexpected", "TypeError", NoBody)
    ELSE Response(200, "none", "none",
                  [status |-> IF svc = "sink" THEN "success" ELSE "none",
                   sink |-> IF svc = "sink" THEN id ELSE "none",
                   result |-> JsonDumps(content)])

\* except HTTPException: raise; except Exception: 500 with the message.
\* Anything else (a BaseException) leaves the handler.
RaisedResponse(out) ==
    CASE out.exc = "HTTPException" -> Response(out.code, "http_exception", out.msg, NoBody)
      [] out.exc = "Exception" -> Response(500, "unexpected", out.msg, NoBody)
      [] OTHER -> Response(0, "escaped", out.msg, NoBody)

\* except ModuleNotFoundError: 404; except Exception: 500 with the cause.
LoadFailureResponse(imp) ==
    IF imp.exc = "ModuleNotFoundError"
    THEN Response(404, "not_found", imp.cause, NoBody)
    ELSE Response(500, "load_failed", imp.cause, NoBody)

\* getattr(module, 'process') raising AttributeError
NoEntryResponse == Response(500, "no_entry", "AttributeError", NoBody)

\* The record of one handled request: the identifier, what the built-in
\* and the override directory held for it when it arrived, where the
\* import found it (found, file), the origin of the module whose entry
\* function was called (invoked), what the call did, and the response.
NoRequest ==
    [id |-> "none", internalFile |-> Absent, externalFile |-> Absent,
     found |-> "none", file |-> Absent, cached |-> FALSE, invoked |-> "none",
     outcome |-> NoOutcome, response |-> Response(0, "none", "none", NoBody)]

\* The body of sink() / transform() for one request: import, getattr,
\* call, respond.  `out` is what the plugin's entry function does if it
\* is called.
Handle(id, imp, out) ==
    LET file == IF imp.found = "none" THEN Absent
                ELSE IF imp.exc = "none" THEN imp.loaded.module
                ELSE DirContents(imp.found)[id]
        base == [NoRequest EXCEPT
                    !.id = id,
                    !.internalFile = InternalDir(service, requestsInstalled)[id],
                    !.externalFile = externalDir[id],
                    !.found = imp.found, !.file = file,
                    !.cached = (sysModules[id] # NotLoaded)]
    IN  IF imp.exc # "none"
        THEN [base EXCEPT !.response = LoadFailureResponse(imp)]
        ELSE IF ~imp.loaded.module.entry
        THEN [base EXCEPT !.response = NoEntryResponse]
        ELSE [base EXCEPT !.invoked = imp.loaded.origin,
                          !.outcome = out,
                          !.response = IF out.t = "return"
                                       THEN SuccessResponse(service, id, out.v)
                                       ELSE RaisedResponse(out)]

\* GET /sinks, GET /transformers: one entry per .py file of the built-in
\* directory, tagged "internal", then one per .py file of the override
\* directory as it is when the request arrives, tagged "external".
\* Nothing is imported and the two directories are not compared.
ListPlugins ==
    {[id |-> id, type |-> "internal"] :
        id \in {i \in AllIds : InternalDir(service, requestsInstalled)[i] # Absent}}
    \cup {[id |-> id, type |-> "external"] :
            id \in {i \in AllIds : externalDir[i] # Absent}}

otherThanDispatch == <<retryVars, provisionVars, raceVars, licenseVars>>

\* POST /sink/{sink_id}, POST /transform/{transformer_id}
Request(id) ==
    /\ service # "none"
    /\ LET imp == ImportModule(id) IN
       \E out \in PluginOutcomes(imp.loaded.origin) :
         /\ sysModules' = IF imp.exc = "none"
                          THEN [sysModules EXCEPT ![id] = imp.loaded]
                          ELSE sysModules
         /\ last' = Handle(id, imp, out)
    /\ UNCHANGED <<service, requestsInstalled, sysPath, externalDir>>
    /\ UNCHANGED otherThanDispatch

\* The operator writes (or replaces) a file of the override directory.
OperatorWrites(id, kind) ==
    /\ service # "none"
    /\ externalDir[id] # kind
    /\ externalDir' = [externalDir EXCEPT ![id] = kind]
    /\ UNCHANGED <<service, requestsInstalled, sysPath, sysModules, last>>
    /\ UNCHANGED otherThanDispatch

\* The operator removes a file of the override directory.
OperatorRemoves(id) ==
    /\ service # "none"
    /\ externalDir[id] # Absent
    /\ externalDir' = [externalDir EXCEPT ![id] = Absent]
    /\ UNCHANGED <<service, requestsInstalled, sysPath, sysModules, last>>
    /\ UNCHANGED otherThanDispatch

\* The module-level code of sink.py / transformer.py: the service starts
\* in an installation with or without `requests`, and appends its
\* directories to sys.path (the override directory only if it exists).
StartService(svc, installed, externalExists) ==
    /\ service = "none"
    /\ service' = svc
    /\ requestsInstalled' = installed
    /\ sysPath' = SearchPath(externalExists)
    /\ UNCHANGED <<externalDir, sysModules, last>>
    /\ UNCHANGED otherThanDispatch

\* Before the service process starts.
InitDispatch ==
    /\ service = "none"
    /\ requestsInstalled = FALSE
    /\ sysPath = <<>>
    /\ externalDir = [id \in AllIds |-> Absent]
    /\ sysModules = [id \in AllIds |-> NotLoaded]
    /\ last = NoRequest

NextDispatch ==
    \/ \E svc \in Services, installed \in BOOLEAN, externalExists \in BOOLEAN :
            StartService(svc, installed, externalExists)
    \/ \E id \in RequestIds(service) : Request(id)
    \/ \E id \in ExternalIds(service), kind \in ModuleKinds : OperatorWrites(id, kind)
    \/ \E id \in ExternalIds(service) : OperatorRemoves(id)

(***************************************************************************)
(*                        RETRYING DELIVERY LOOP                           *)
(*  webhook_sink.process lines 72-124, NetLicensingClient._request         *)
(***************************************************************************)

\* The largest retry-count a request configures here.
MaxRetryCount == 3

\* int(properties.get('retry-count', '3')): any integer the caller writes.
RetryCounts == -1 .. MaxRetryCount

Clients == {"webhook", "netlicensing"}

Methods == {"POST", "GET", "PUT"}

\* requests.exceptions.RequestException raised by the call or by
\* response.raise_for_status(): transport failures, 5xx and 4xx alike.
Failures == {"ConnectionError", "Timeout", "HTTP 503", "HTTP 404"}

IsClientError(outcome) == outcome = "HTTP 404"

OutcomeKinds == Failures \cup {"ok"}

NoResult == [kind |-> "none", cause |-> "None", attempt |-> 0]

\* (mutant) the exponent off by one
BackoffOffByOne(attempt) == 2 ^ (attempt + 1)

\* time.sleep(2 ** attempt)
Backoff(attempt) == 2 ^ attempt

\* (mutant) only the first failure kept
LastErrorKeepFirst(previous, e) == IF previous = "None" THEN e ELSE previous

\* last_error = e
LastError(previous, e) == e

\* (mutant) one iteration more than configured
LoopContinuesInclusive(attempt, retryCount) == attempt <= retryCount

\* for attempt in range(retry_count): whether the body runs for `attempt`
LoopContinues(attempt, retryCount) == attempt < retryCount

\* (mutant) no sleep between attempts
SleepsAfterNever(attempt, retryCount) == FALSE

\* (mutant) a sleep after the last failure too
SleepsAfterAlways(attempt, retryCount) == TRUE

\* if attempt < retry_count - 1
SleepsAfter(attempt, retryCount) == attempt < retryCount - 1

\* webhook: the method is one requests.post / requests.get serves;
\* _request hands any method to session.request.
MethodSupported(client, method) ==
    client = "netlicensing" \/ method \in {"POST", "GET"}

otherThanRetry == <<dispatchVars, provisionVars, raceVars, licenseVars>>

\* The caller enters the loop with its configuration: last_error = None.
BeginDelivery(client, retryCount, method) ==
    /\ rPc = "idle"
    /\ rClient' = client
    /\ rRetryCount' = retryCount
    /\ rMethod' = method
    /\ rAttempt' = 0
    /\ rLastError' = "None"
    /\ rPc' = "loop"
    /\ UNCHANGED <<rSent, rOutcomes, rSleeps, rResult>>
    /\ UNCHANGED otherThanRetry

\* The range is exhausted: raise RuntimeError(f"...: {last_error}").
RaiseExhausted ==
    /\ rPc = "loop"
    /\ ~LoopContinues(rAttempt, rRetryCount)
    /\ rPc' = "raised"
    /\ rResult' = [kind |-> "RuntimeError", cause |-> rLastError, attempt |-> 0]
    /\ UNCHANGED <<rClient, rRetryCount, rMethod, rAttempt, rLastError, rSent,
                   rOutcomes, rSleeps>>
    /\ UNCHANGED otherThanRetry

\* webhook: raise ValueError(f"Unsupported HTTP method: {method}") inside
\* the try block; no RequestException, so it leaves the loop.
RejectMethod ==
    /\ rPc = "loop"
    /\ LoopContinues(rAttempt, rRetryCount)
    /\ ~MethodSupported(rClient, rMethod)
    /\ rPc' = "raised"
    /\ rResult' = [kind |-> "ValueError", cause |-> "Unsupported HTTP method",
                   attempt |-> 0]
    /\ UNCHANGED <<rClient, rRetryCount, rMethod, rAttempt, rLastError, rSent,
                   rOutcomes, rSleeps>>
    /\ UNCHANGED otherThanRetry

\* requests.post / requests.get / session.request is called.
SendRequest ==
    /\ rPc = "loop"
    /\ LoopContinues(rAttempt, rRetryCount)
    /\ MethodSupported(rClient, rMethod)
    /\ rPc' = "inflight"
    /\ rSent' = rSent + 1
    /\ UNCHANGED <<rClient, rRetryCount, rMethod, rAttempt, rLastError,
                   rOutcomes, rSleeps, rResult>>
    /\ UNCHANGED otherThanRetry

\* The call and raise_for_status() succeed: the function returns.
RequestSucceeds ==
    /\ rPc = "inflight"
    /\ rOutcomes' = Append(rOutcomes, "ok")
    /\ rPc' = "returned"
    /\ rResult' = [kind |-> "success", cause |-> "None", attempt |-> rAttempt + 1]
    /\ UNCHANGED <<rClient, rRetryCount, rMethod, rAttempt, rLastError, rSent,
                   rSleeps>>
    /\ UNCHANGED otherThanRetry

\* except RequestException as e: last_error = e; sleep unless this was
\* the last iteration; continue.
RequestFails(e) ==
    /\ rPc = "inflight"
    /\ rOutcomes' = Append(rOutcomes, e)
    /\ rLastError' = LastError(rLastError, e)
    /\ IF SleepsAfter(rAttempt, rRetryCount)
       THEN /\ rSleeps' = Append(rSleeps, Backoff(rAttempt))
            /\ rPc' = "sleep"
            /\ UNCHANGED rAttempt
       ELSE /\ rPc' = "loop"
            /\ rAttempt' = rAttempt + 1
            /\ UNCHANGED rSleeps
    /\ UNCHANGED <<rClient, rRetryCount, rMethod, rSent, rResult>>
    /\ UNCHANGED otherThanRetry

\* time.sleep returns; continue with the next value of the range.
Wake ==
    /\ rPc = "sleep"
    /\ rPc' = "loop"
    /\ rAttempt' = rAttempt + 1
    /\ UNCHANGED <<rClient, rRetryCount, rMethod, rLastError, rSent, rOutcomes,
                   rSleeps, rResult>>
    /\ UNCHANGED otherThanRetry

InitRetry ==
    /\ rClient = "none"
    /\ rRetryCount = 0
    /\ rMethod = "none"
    /\ rPc = "idle"
    /\ rAttempt = 0
    /\ rLastError = "None"
    /\ rSent = 0
    /\ rOutcomes = <<>>
    /\ rSleeps = <<>>
    /\ rResult = NoResult

NextRetry ==
    \/ /\ rPc = "idle"
       /\ \E client \in Clients, retryCount \in RetryCounts, method \in Methods :
               BeginDelivery(client, retryCount, method)
    \/ RaiseExhausted
    \/ RejectMethod
    \/ SendRequest
    \/ RequestSucceeds
    \/ \E e \in Failures : RequestFails(e)
    \/ Wake

(***************************************************************************)
(*                     LICENSING PROVISIONING WORKFLOW                     *)
(*  netlicensing_sink.process and _process_item; every call of the         *)
(*  NetLicensingClient is one step whose outcome the backend decides.      *)
(***************************************************************************)

\* The largest number of purchase-order items and the largest quantity of
\* one item.
MaxItems == 2
MaxQuantity == 2

None == "None"

\* The properties a request may carry: with or without api-key, with a
\* timeout and a retry-count that int() accepts or not, the
\* quantity-to-licensee flag, and the default product / license template
\* numbers (both or neither).
PropertySets ==
    [apiKey : {"key", None},
     timeout : {"30", "abc"},
     retryCount : {"3", "abc"},
     quantityToLicensee : BOOLEAN,
     defaultProduct : {None},
     defaultTemplate : {None}]
    \cup
    [apiKey : {"key"},
     timeout : {"30"},
     retryCount : {"3"},
     quantityToLicensee : BOOLEAN,
     defaultProduct : {"P1"},
     defaultTemplate : {"LT1"}]

NoProps ==
    [apiKey |-> None, timeout |-> "30", retryCount |-> "3",
     quantityToLicensee |-> FALSE,
     defaultProduct |-> None, defaultTemplate |-> None]

\* int(text)
ParsesAsInt(text) == text \in {"3", "30"}

\* Values of eventType: the key absent (read as ''), JSON null, and
\* strings.
EventTypes == {"<absent>", "<null>", "login", "checkout.transaction.completed"}

IsString(eventType) == eventType # "<null>"

\* (mutant) every event passes the filter
StartsWithCheckoutAlways(eventType) == TRUE

\* event_type.startswith('checkout.transaction');
\* event_data.get('eventType', '') is '' for an absent key.
StartsWithCheckout(eventType) == eventType = "checkout.transaction.completed"

\* extra.transaction: absent (or empty), or a transaction with its status
\* ('' when the transaction has none).
Transactions == {"<absent>", "", "PENDING", "COMPLETED"}

\* (mutant) a transaction of any status passes the gate
IsCompletedAlways(status) == TRUE

\* status != 'COMPLETED'
IsCompleted(status) == status = "COMPLETED"

\* The licensee number an item may reference in extra.licenseeNumber.
ExistingLicensee == 0

\* The purchase-order items: productNumber, licenseTemplateNumber and
\* licenseeNumber of the item's extra (None when absent), and quantity.
Catalogue ==
    [sku : {"A"}, product : {"P1"}, template : {"LT1"}, licensee : {<<>>},
     quantity : 1..MaxQuantity]
    \cup [sku : {"B"}, product : {None}, template : {"LT1"}, licensee : {<<>>},
          quantity : {1}]
    \cup [sku : {"C"}, product : {"P1"}, template : {None}, licensee : {<<>>},
          quantity : {1}]
    \cup [sku : {"D"}, product : {"P1"}, template : {"LT1"},
          licensee : {<<ExistingLicensee>>}, quantity : {MaxQuantity}]

\* The purchase orders: up to MaxItems items, one line per SKU.
ItemLists ==
    {items \in UNION {[1..n -> Catalogue] : n \in 0..MaxItems} :
        \A i, j \in 1..Len(items) : i # j => items[i].sku # items[j].sku}

\* x or default
OrDefault(x, default) == IF x # None THEN x ELSE default

\* What get_licensee may answer for the referenced licensee: the request
\* fails (RuntimeError after the retries), or a licensee of the same
\* product, of another product, or with no product in the response.
LicenseeAnswers == {"fail", "P1", "P2", None}

\* What get_license_template may answer: failure, or the template's type.
TemplateAnswers == {"fail", "TIMEVOLUME", "FEATURE"}

\* The locals of _process_item: the resolved numbers, the quantity, the
\* units done, the licensee held (licensee), the lists being built, the
\* start date of the license being created, and what get_licensee
\* answered for this item.
NoItem ==
    [product |-> None, template |-> None, quantity |-> 0, unit |-> 0,
     licensee |-> <<>>, licensees |-> <<>>, licenses |-> <<>>,
     startDate |-> None, fetched |-> "not fetched"]

\* (mutant) an empty purchase order passes the validation
HasItemsAlways(items) == TRUE

\* if not items
HasItems(items) == items # <<>>

\* if existing_licensee_number and not quantity_to_licensee
FetchesLicensee(existing, quantityToLicensee) ==
    existing # <<>> /\ ~quantityToLicensee

\* (mutant) the fetched licensee kept whatever its product
SameProductAlways(answer, product) == answer # "fail"

\* (mutant) a fetched licensee without product association kept
SameProductOrUnknown(answer, product) == answer \in {product, None}

\* (mutant) the referenced licensee kept when the fetch failed
SameProductOrFailed(answer, product) == answer \in {product, "fail"}

\* licensee.get('product', {}).get('number') != product_number
SameProduct(answer, product) == answer = product

\* (mutant) a licensee created for every unit, flag or not
NeedsLicenseeAlways(licensee, quantityToLicensee) == TRUE

\* (mutant) the flag ignored: a licensee created only when none is held
NeedsLicenseeWhenNone(licensee, quantityToLicensee) == licensee = <<>>

\* if licensee is None or quantity_to_licensee
NeedsLicensee(licensee, quantityToLicensee) ==
    licensee = <<>> \/ quantityToLicensee

\* The value of the result's errors field: None, or a list.
PyNone == [type |-> "NoneType", value |-> <<>>]

PyList(seq) == [type |-> "list", value |-> seq]

\* (mutant) the list whatever it holds
ErrorsFieldList(errors) == PyList(errors)

\* errors if errors else None
ErrorsField(errors) == IF errors # <<>> THEN PyList(errors) ELSE PyNone

NoProvisionResult ==
    [kind |-> "none", processed |-> FALSE, reason |-> None,
     licensees_created |-> 0, licensee_numbers |-> {},
     licenses_created |-> 0, license_numbers |-> <<>>, errors |-> PyNone]

Raised(kind, reason) ==
    [NoProvisionResult EXCEPT !.kind = kind, !.reason = reason]

\* {"processed": False, "reason": ..., "destination": "netlicensing"}
NoOp(reason) ==
    [NoProvisionResult EXCEPT !.kind = "returned", !.reason = reason]

otherThanProvision == <<dispatchVars, retryVars, raceVars, licenseVars>>

\* process(event_data, properties) is called.
BeginProcess(props, eventType, transaction, items) ==
    /\ pPc = "idle"
    /\ pProps' = props
    /\ pEventType' = eventType
    /\ pTransaction' = transaction
    /\ pItems' = items
    /\ pPc' = "configure"
    /\ UNCHANGED <<pIdx, pItem, pCreatedLicensees, pCreatedLicenses, pErrors,
                   pResult, bLicensees, bLicenses, bCalls, bFailed>>
    /\ UNCHANGED otherThanProvision

\* Lines 78-94: the api-key is required and timeout / retry-count go
\* through int(); either raises ValueError.
Configure ==
    /\ pPc = "configure"
    /\ IF pProps.apiKey = None
       THEN /\ pPc' = "raised"
            /\ pResult' = Raised("ValueError", "Missing required property: 'api-key'")
       ELSE IF ~ParsesAsInt(pProps.timeout) \/ ~ParsesAsInt(pProps.retryCount)
       THEN /\ pPc' = "raised"
            /\ pResult' = Raised("ValueError", "invalid literal for int()")
       ELSE /\ pPc' = "filter"
            /\ UNCHANGED pResult
    /\ UNCHANGED <<pProps, pEventType, pTransaction, pItems, pIdx, pItem,
                   pCreatedLicensees, pCreatedLicenses, pErrors,
                   bLicensees, bLicenses, bCalls, bFailed>>
    /\ UNCHANGED otherThanProvision

\* Lines 96-104: the event-type filter.  A value that is no string has no
\* startswith: AttributeError.
FilterEvent ==
    /\ pPc = "filter"
    /\ IF ~IsString(pEventType)
       THEN /\ pPc' = "raised"
            /\ pResult' = Raised("AttributeError", "no attribute 'startswith'")
       ELSE IF ~StartsWithCheckout(pEventType)
       THEN /\ pPc' = "returned"
            /\ pResult' = NoOp("not a checkout transaction event")
       ELSE /\ pPc' = "gate"
            /\ UNCHANGED pResult
    /\ UNCHANGED <<pProps, pEventType, pTransaction, pItems, pIdx, pItem,
                   pCreatedLicensees, pCreatedLicenses, pErrors,
                   bLicensees, bLicenses, bCalls, bFailed>>
    /\ UNCHANGED otherThanProvision

\* Lines 106-121: a missing (or empty) transaction is a ValueError; a
\* status other than COMPLETED a no-op.
StatusGate ==
    /\ pPc = "gate"
    /\ IF pTransaction = "<absent>"
       THEN /\ pPc' = "raised"
            /\ pResult' = Raised("ValueError", "Missing 'transaction' in event extra data")
       ELSE IF ~IsCompleted(pTransaction)
       THEN /\ pPc' = "returned"
            /\ pResult' = NoOp("transaction status is not COMPLETED")
       ELSE /\ pPc' = "validate"
            /\ UNCHANGED pResult
    /\ UNCHANGED <<pProps, pEventType, pTransaction, pItems, pIdx, pItem,
                   pCreatedLicensees, pCreatedLicenses, pErrors,
                   bLicensees, bLicenses, bCalls, bFailed>>
    /\ UNCHANGED otherThanProvision

\* Lines 123-143: the client is constructed (no request yet), the items
\* are read; an empty list is a ValueError.
ValidateItems ==
    /\ pPc = "validate"
    /\ IF ~HasItems(pItems)
       THEN /\ pPc' = "raised"
            /\ pResult' = Raised("ValueError", "Purchase order has no items")
            /\ UNCHANGED pIdx
       ELSE /\ pPc' = "item"
            /\ pIdx' = 1
            /\ UNCHANGED pResult
    /\ UNCHANGED <<pProps, pEventType, pTransaction, pItems, pItem,
                   pCreatedLicensees, pCreatedLicenses, pErrors,
                   bLicensees, bLicenses, bCalls, bFailed>>
    /\ UNCHANGED otherThanProvision

\* except Exception as e (lines 162-168): the item's error is recorded, the
\* lists _process_item was building are dropped, the loop goes on.
ItemFails(cause) ==
    /\ pErrors' = Append(pErrors, [item_sku |-> pItems[pIdx].sku, error |-> cause])
    /\ pIdx' = pIdx + 1
    /\ pItem' = NoItem
    /\ pPc' = "item"

\* _process_item lines 200-219: product and template numbers are resolved
\* (the item's, else the default); a missing one raises ValueError.
StartItem ==
    /\ pPc = "item"
    /\ pIdx <= Len(pItems)
    /\ LET item == pItems[pIdx]
           product == OrDefault(item.product, pProps.defaultProduct)
           template == OrDefault(item.template, pProps.defaultTemplate)
       IN  IF product = None
           THEN ItemFails("No product number for item")
           ELSE IF template = None
           THEN ItemFails("No license template number for item")
           ELSE /\ pItem' = [NoItem EXCEPT !.product = product,
                                           !.template = template,
                                           !.quantity = item.quantity]
                /\ pPc' = IF FetchesLicensee(item.licensee,
                                             pProps.quantityToLicensee)
                          THEN "get_licensee" ELSE "unit"
                /\ UNCHANGED <<pErrors, pIdx>>
    /\ UNCHANGED <<pProps, pEventType, pTransaction, pItems,
                   pCreatedLicensees, pCreatedLicenses, pResult,
                   bLicensees, bLicenses, bCalls, bFailed>>
    /\ UNCHANGED otherThanProvision

\* Lines 221-231: client.get_licensee; a licensee of another product (or
\* of none) is dropped, and so is a failure of the request.
\* The backend answers about the licensee it was asked for, so the number
\* of the licensee held is the number the item referenced.
GetLicensee(answer) ==
    /\ pPc = "get_licensee"
    /\ bCalls' = Append(bCalls, "get_licensee")
    /\ bFailed' = IF answer = "fail" THEN bFailed \cup {"get_licensee"} ELSE bFailed
    /\ pItem' = [pItem EXCEPT
                    !.fetched = answer,
                    !.licensee = IF SameProduct(answer, pItem.product)
                                 THEN pItems[pIdx].licensee ELSE <<>>]
    /\ pPc' = "unit"
    /\ UNCHANGED <<pProps, pEventType, pTransaction, pItems, pIdx,
                   pCreatedLicensees, pCreatedLicenses, pErrors, pResult,
                   bLicensees, bLicenses>>
    /\ UNCHANGED otherThanProvision

\* Line 234, for i in range(quantity), after the last unit: the item's
\* lists are returned and process extends its own (lines 160-161).
FinishItem ==
    /\ pPc = "unit"
    /\ pItem.unit >= pItem.quantity
    /\ pCreatedLicensees' = pCreatedLicensees \o pItem.licensees
    /\ pCreatedLicenses' = pCreatedLicenses \o pItem.licenses
    /\ pIdx' = pIdx + 1
    /\ pItem' = NoItem
    /\ pPc' = "item"
    /\ UNCHANGED <<pProps, pEventType, pTransaction, pItems, pErrors, pResult,
                   bLicensees, bLicenses, bCalls, bFailed>>
    /\ UNCHANGED otherThanProvision

\* Lines 236-247: a licensee is created when none is held or when every
\* unit gets its own.
CreateLicensee(ok) ==
    /\ pPc = "unit"
    /\ pItem.unit < pItem.quantity
    /\ NeedsLicensee(pItem.licensee, pProps.quantityToLicensee)
    /\ bCalls' = Append(bCalls, "create_licensee")
    /\ bFailed' = IF ~ok THEN bFailed \cup {"create_licensee"} ELSE bFailed
    /\ IF ok
       THEN LET number == Len(bLicensees) + 1 IN
            /\ bLicensees' = Append(bLicensees, pItem.product)
            /\ pItem' = [pItem EXCEPT !.licensee = <<number>>,
                                      !.licensees = Append(@, number)]
            /\ pPc' = "get_template"
            /\ UNCHANGED <<pErrors, pIdx>>
       ELSE /\ ItemFails("NetLicensing API request failed")
            /\ UNCHANGED bLicensees
    /\ UNCHANGED <<pProps, pEventType, pTransaction, pItems,
                   pCreatedLicensees, pCreatedLicenses, pResult, bLicenses>>
    /\ UNCHANGED otherThanProvision

\* The held licensee is reused for this unit.
ReuseLicensee ==
    /\ pPc = "unit"
    /\ pItem.unit < pItem.quantity
    /\ ~NeedsLicensee(pItem.licensee, pProps.quantityToLicensee)
    /\ pPc' = "get_template"
    /\ UNCHANGED <<pProps, pEventType, pTransaction, pItems, pIdx, pItem,
                   pCreatedLicensees, pCreatedLicenses, pErrors, pResult,
                   bLicensees, bLicenses, bCalls, bFailed>>
    /\ UNCHANGED otherThanProvision

\* _create_license lines 326-339: the template is fetched for its type;
\* startDate 'now' for TIMEVOLUME; a failed fetch is logged and ignored.
GetLicenseTemplate(answer) ==
    /\ pPc = "get_template"
    /\ bCalls' = Append(bCalls, "get_license_template")
    /\ bFailed' = IF answer = "fail" THEN bFailed \cup {"get_license_template"} ELSE bFailed
    /\ pItem' = [pItem EXCEPT !.startDate =
                    IF answer = "TIMEVOLUME" THEN "now" ELSE None]
    /\ pPc' = "create_license"
    /\ UNCHANGED <<pProps, pEventType, pTransaction, pItems, pIdx,
                   pCreatedLicensees, pCreatedLicenses, pErrors, pResult,
                   bLicensees, bLicenses>>
    /\ UNCHANGED otherThanProvision

\* Lines 347 and 256: client.create_license for the held licensee.
CreateLicense(ok) ==
    /\ pPc = "create_license"
    /\ bCalls' = Append(bCalls, "create_license")
    /\ bFailed' = IF ~ok THEN bFailed \cup {"create_license"} ELSE bFailed
    /\ IF ok
       THEN LET number == Len(bLicenses) + 1 IN
            /\ bLicenses' = Append(bLicenses,
                                   [licensee |-> pItem.licensee[1],
                                    template |-> pItem.template,
                                    startDate |-> pItem.startDate])
            /\ pItem' = [pItem EXCEPT !.licenses = Append(@, number),
                                      !.unit = @ + 1]
            /\ pPc' = "unit"
            /\ UNCHANGED <<pErrors, pIdx>>
       ELSE /\ ItemFails("NetLicensing API request failed")
            /\ UNCHANGED bLicenses
    /\ UNCHANGED <<pProps, pEventType, pTransaction, pItems,
                   pCreatedLicensees, pCreatedLicenses, pResult, bLicensees>>
    /\ UNCHANGED otherThanProvision

Range(seq) == {seq[i] : i \in 1..Len(seq)}

\* Lines 170-182: all items failed, or the success result.
Aggregate ==
    /\ pPc = "item"
    /\ pIdx > Len(pItems)
    /\ IF pErrors # <<>> /\ pCreatedLicensees = <<>>
       THEN /\ pPc' = "raised"
            /\ pResult' = [Raised("RuntimeError", "Failed to process all items")
                              EXCEPT !.errors = PyList(pErrors)]
       ELSE /\ pPc' = "returned"
            /\ pResult' = [kind |-> "returned", processed |-> TRUE, reason |-> None,
                           licensees_created |-> Cardinality(Range(pCreatedLicensees)),
                           licensee_numbers |-> Range(pCreatedLicensees),
                           licenses_created |-> Len(pCreatedLicenses),
                           license_numbers |-> pCreatedLicenses,
                           errors |-> ErrorsField(pErrors)]
    /\ UNCHANGED <<pProps, pEventType, pTransaction, pItems, pIdx, pItem,
                   pCreatedLicensees, pCreatedLicenses, pErrors,
                   bLicensees, bLicenses, bCalls, bFailed>>
    /\ UNCHANGED otherThanProvision

InitProvision ==
    /\ pPc = "idle"
    /\ pProps = NoProps
    /\ pEventType = "<absent>"
    /\ pTransaction = "<absent>"
    /\ pItems = <<>>
    /\ pIdx = 0
    /\ pItem = NoItem
    /\ pCreatedLicensees = <<>>
    /\ pCreatedLicenses = <<>>
    /\ pErrors = <<>>
    /\ pResult = NoProvisionResult
    /\ bLicensees = <<>>
    /\ bLicenses = <<>>
    /\ bCalls = <<>>
    /\ bFailed = {}

NextProvision ==
    \/ /\ pPc = "idle"
       /\ \E props \in PropertySets, eventType \in EventTypes,
             transaction \in Transactions, items \in ItemLists :
               BeginProcess(props, eventType, transaction, items)
    \/ Configure
    \/ FilterEvent
    \/ StatusGate
    \/ ValidateItems
    \/ StartItem
    \/ \E answer \in LicenseeAnswers : GetLicensee(answer)
    \/ FinishItem
    \/ \E ok \in BOOLEAN : CreateLicensee(ok)
    \/ ReuseLicensee
    \/ \E answer \in TemplateAnswers : GetLicenseTemplate(answer)
    \/ \E ok \in BOOLEAN : CreateLicense(ok)
    \/ Aggregate

(***************************************************************************)
(*               CONCURRENT REQUESTS FOR ONE PLUGIN                        *)
(*  sink() and transform() are coroutines (async def) without an await:    *)
(*  the event loop of the service process runs one of them at a time,      *)
(*  from its first statement to its return.                                *)
(***************************************************************************)

\* The largest number of requests that arrive for the same identifier
\* before the first of them is answered.
MaxTasks == 3

Tasks == 1..MaxTasks

NoTask == 0

\* The entry of sys.modules: none; the module object the import system
\* inserted before executing the file (partial); the loaded module.
\* loader is the request whose import created the module object.
NoEntry == [state |-> "absent", loader |-> NoTask]

NothingImported == [state |-> "none", loader |-> NoTask]

\* (mutant) a handler may be resumed while another one is suspended
MayStepAlways(task) == TRUE

\* The event loop runs a coroutine until it awaits or returns; the
\* handlers never await: a request steps only when no other one is
\* in its handler.
MayStep(task) == qRunning \in {NoTask, task}

otherThanRace == <<dispatchVars, retryVars, provisionVars, licenseVars>>

\* A request for the identifier arrives; its coroutine is scheduled.
Arrive(task) ==
    /\ qPc[task] = "none"
    /\ qPc' = [qPc EXCEPT ![task] = "queued"]
    /\ UNCHANGED <<qRunning, qEntry, qLoads, qImported, qInvoked, qRacing>>
    /\ UNCHANGED otherThanRace

\* The event loop starts the handler of a pending request.
StartHandler(task) ==
    /\ qPc[task] = "queued"
    /\ MayStep(task)
    /\ qRunning' = task
    /\ qPc' = [qPc EXCEPT ![task] = "import"]
    /\ UNCHANGED <<qEntry, qLoads, qImported, qInvoked, qRacing>>
    /\ UNCHANGED otherThanRace

\* importlib.import_module(sink_id): the entry of sys.modules is
\* returned if there is one; otherwise a module object is inserted and
\* its file is about to be executed.
FindModule(task) ==
    /\ qPc[task] = "import"
    /\ MayStep(task)
    /\ qRunning' = task
    /\ IF qEntry.state = "absent"
       THEN /\ qEntry' = [state |-> "partial", loader |-> task]
            /\ qPc' = [qPc EXCEPT ![task] = "exec"]
            /\ qRacing' = IF qLoads = 0 /\ qRacing = {}
                          THEN {t \in Tasks : qPc[t] = "queued"} \cup {task}
                          ELSE qRacing
            /\ UNCHANGED qImported
       ELSE /\ qImported' = [qImported EXCEPT ![task] = qEntry]
            /\ qPc' = [qPc EXCEPT ![task] = "call"]
            /\ UNCHANGED <<qEntry, qRacing>>
    /\ UNCHANGED <<qLoads, qInvoked>>
    /\ UNCHANGED otherThanRace

\* The file is executed: to the end (the module is loaded and returned),
\* or it raises (the entry is removed, the handler answers 500 or 404).
ExecModule(task, ok) ==
    /\ qPc[task] = "exec"
    /\ MayStep(task)
    /\ IF ok
       THEN /\ qEntry' = [state |-> "ready", loader |-> task]
            /\ qLoads' = qLoads + 1
            /\ qImported' = [qImported EXCEPT
                                ![task] = [state |-> "ready", loader |-> task]]
            /\ qPc' = [qPc EXCEPT ![task] = "call"]
            /\ qRunning' = task
       ELSE /\ qEntry' = NoEntry
            /\ qPc' = [qPc EXCEPT ![task] = "done"]
            /\ qRunning' = NoTask
            /\ UNCHANGED <<qLoads, qImported>>
    /\ UNCHANGED <<qInvoked, qRacing>>
    /\ UNCHANGED otherThanRace

\* getattr(module, 'process') and the call; the handler returns.
CallEntry(task) ==
    /\ qPc[task] = "call"
    /\ MayStep(task)
    /\ qInvoked' = [qInvoked EXCEPT ![task] = qImported[task]]
    /\ qPc' = [qPc EXCEPT ![task] = "done"]
    /\ qRunning' = NoTask
    /\ UNCHANGED <<qEntry, qLoads, qImported, qRacing>>
    /\ UNCHANGED otherThanRace

InitRace ==
    /\ qPc = [t \in Tasks |-> "none"]
    /\ qRunning = NoTask
    /\ qEntry = NoEntry
    /\ qLoads = 0
    /\ qImported = [t \in Tasks |-> NothingImported]
    /\ qInvoked = [t \in Tasks |-> NothingImported]
    /\ qRacing = {}

NextRace ==
    \/ \E task \in Tasks : Arrive(task)
    \/ \E task \in Tasks : StartHandler(task)
    \/ \E task \in Tasks : FindModule(task)
    \/ \E task \in Tasks, ok \in BOOLEAN : ExecModule(task, ok)
    \/ \E task \in Tasks : CallEntry(task)

(***************************************************************************)
(*                       CREATION OF ONE LICENSE                           *)
(*  netlicensing_sink._create_license, called once per unit               *)
(***************************************************************************)

\* Python values of the item's metadata and of the request data: a
\* string, an integer, or no value under that key.
PyStr(s) == [t |-> "str", s |-> s, n |-> 0]

PyInt(n) == [t |-> "int", s |-> "", n |-> n]

Missing == [t |-> "missing", s |-> "", n |-> 0]

DigitChars == <<"0", "1", "2", "3", "4", "5", "6", "7", "8", "9">>

RECURSIVE Decimal(_)
\* The decimal digits of a natural number.
Decimal(n) ==
    IF n < 10 THEN DigitChars[n + 1]
    ELSE Decimal(n \div 10) \o DigitChars[(n % 10) + 1]

\* str(value)
Str(value) == IF value.t = "int" THEN PyStr(Decimal(value.n)) ELSE value

\* for key in ['startDate', 'endDate', 'maxSessions', 'maxCheckouts']
AllowList == <<"startDate", "endDate", "maxSessions", "maxCheckouts">>

\* The keys of the request data: those of `properties`, and the two
\* create_license adds.
DataKeys == {"active", "startDate", "endDate", "maxSessions", "maxCheckouts",
             "licenseeNumber", "licenseTemplateNumber"}

\* item['extra'] as the caller may send it: any of the override fields,
\* the number of an existing licensee, and a key `active`.
ExtraDicts ==
    {extra \in [DataKeys -> {Missing, PyStr("2027-01-01"), PyStr("false"),
                             PyStr("L0"), PyInt(25)}] :
        /\ extra["startDate"] \in {Missing, PyStr("2027-01-01")}
        /\ extra["endDate"] \in {Missing, PyStr("2027-01-01")}
        /\ extra["maxSessions"] \in {Missing, PyInt(25)}
        /\ extra["maxCheckouts"] \in {Missing, PyInt(25)}
        /\ extra["licenseeNumber"] \in {Missing, PyStr("L0")}
        /\ extra["active"] \in {Missing, PyStr("false")}
        /\ extra["licenseTemplateNumber"] = Missing}

\* licenseType of the template the item resolved to.
TemplateTypes == {"TIMEVOLUME", "FEATURE"}

NoDict == [key \in DataKeys |-> Missing]

\* properties = {'active': 'true'}
InitialProperties == [NoDict EXCEPT !["active"] = PyStr("true")]

RECURSIVE CopyOverrides(_, _, _)
\* Lines 341-345: if key in item_extra: properties[key] = str(item_extra[key])
CopyOverrides(properties, extra, keys) ==
    IF keys = <<>> THEN properties
    ELSE CopyOverrides(IF extra[Head(keys)] # Missing
                       THEN [properties EXCEPT ![Head(keys)] = Str(extra[Head(keys)])]
                       ELSE properties,
                       extra, Tail(keys))

\* dict.update: the keys of `other` replace those of `data`.
Update(data, other) ==
    [key \in DataKeys |-> IF other[key] # Missing THEN other[key] ELSE data[key]]

\* create_license lines 457-460: the data of POST license.
LicenseData(licenseeNumber, templateNumber, properties) ==
    Update([NoDict EXCEPT !["licenseeNumber"] = PyStr(licenseeNumber),
                          !["licenseTemplateNumber"] = PyStr(templateNumber)],
           properties)

otherThanLicense == <<dispatchVars, retryVars, provisionVars, raceVars>>

\* _create_license(client, 'L1', 'LT1', item) is called.
BeginCreateLicense(templateType, extra) ==
    /\ lPc = "idle"
    /\ lTemplateType' = templateType
    /\ lExtra' = extra
    /\ lProperties' = InitialProperties
    /\ lPc' = "get_template"
    /\ UNCHANGED <<lPosted, lFetchFailed>>
    /\ UNCHANGED otherThanLicense

\* Lines 330-339: the template is fetched; startDate 'now' for TIMEVOLUME;
\* an exception of the fetch is logged and nothing else.
FetchTemplate(ok) ==
    /\ lPc = "get_template"
    /\ lFetchFailed' = ~ok
    /\ lProperties' = IF ok /\ lTemplateType = "TIMEVOLUME"
                      THEN [lProperties EXCEPT !["startDate"] = PyStr("now")]
                      ELSE lProperties
    /\ lPc' = "copy"
    /\ UNCHANGED <<lTemplateType, lExtra, lPosted>>
    /\ UNCHANGED otherThanLicense

\* Lines 341-345: the loop over the allow-list.
CopyItemProperties ==
    /\ lPc = "copy"
    /\ lProperties' = CopyOverrides(lProperties, lExtra, AllowList)
    /\ lPc' = "post"
    /\ UNCHANGED <<lTemplateType, lExtra, lPosted, lFetchFailed>>
    /\ UNCHANGED otherThanLicense

\* Line 347: client.create_license; the license is returned, or the
\* RuntimeError of the exhausted request leaves the function.
PostLicense(ok) ==
    /\ lPc = "post"
    /\ lPosted' = Append(lPosted, LicenseData("L1", "LT1", lProperties))
    /\ lPc' = IF ok THEN "returned" ELSE "raised"
    /\ UNCHANGED <<lTemplateType, lExtra, lProperties, lFetchFailed>>
    /\ UNCHANGED otherThanLicense

InitLicense ==
    /\ lPc = "idle"
    /\ lTemplateType = "FEATURE"
    /\ lExtra = NoDict
    /\ lProperties = NoDict
    /\ lPosted = <<>>
    /\ lFetchFailed = FALSE

NextLicense ==
    \/ /\ lPc = "idle"
       /\ \E templateType \in TemplateTypes, extra \in ExtraDicts :
            BeginCreateLicense(templateType, extra)
    \/ \E ok \in BOOLEAN : FetchTemplate(ok)
    \/ CopyItemProperties
    \/ \E ok \in BOOLEAN : PostLicense(ok)

Init == InitDispatch /\ InitRetry /\ InitProvision /\ InitRace /\ InitLicense

SpecDispatch == Init /\ [][NextDispatch]_vars

SpecRetry == Init /\ [][NextRetry]_vars

SpecProvision == Init /\ [][NextProvision]_vars

SpecRace == Init /\ [][NextRace]_vars

SpecLicense == Init /\ [][NextLicense]_vars

\* process reads the purchase order only at line 132, after the property
\* validation, the event-type filter and the status gate.
ReadsItems(props, eventType, transaction) ==
    /\ props.apiKey # None
    /\ ParsesAsInt(props.timeout)
    /\ ParsesAsInt(props.retryCount)
    /\ IsString(eventType)
    /\ StartsWithCheckout(eventType)
    /\ IsCompleted(transaction)

\* The properties of the invocations followed to their end: every shape
\* of PropertySets, without the default product and license template
\* (items then carry their own numbers or fail at once).
InvocationProperties ==
    {props \in PropertySets : props.defaultProduct = None}

\* One dispatched plugin invocation: a webhook delivery (or one call of
\* the licensing client), or a provisioning.  An invocation that ends
\* before it reads the purchase order is started with the empty one.
\* The interpreter keeps executing the invocation: a pending request
\* returns or times out (both clients pass timeout=), time.sleep returns,
\* and every other step is a statement of the function.
NextInvocation ==
    \/ pPc = "idle" /\ NextRetry
    \/ /\ rPc = "idle"
       /\ pPc = "idle"
       /\ \E props \in InvocationProperties, eventType \in EventTypes,
             transaction \in Transactions :
            \E items \in IF ReadsItems(props, eventType, transaction)
                          THEN ItemLists ELSE {<<>>} :
                BeginProcess(props, eventType, transaction, items)
    \/ rPc = "idle" /\ pPc # "idle" /\ NextProvision

\* A step of the invocation that has started.
RunInvocation ==
    \/ rPc # "idle" /\ NextRetry
    \/ pPc # "idle" /\ NextProvision

SpecInvocation ==
    Init /\ [][NextInvocation]_vars /\ WF_vars(RunInvocation)

(***************************************************************************)
(*                     PROPERTIES OF THE DISPATCH SERVICE                  *)
(***************************************************************************)

Handled == last.id # "none"

\* C1 (as claimed): a request whose identifier names no module in the
\* built-in directory and none in the override directory is answered 404
\* and no entry function is invoked.
C1_UnknownIdAnswers404 ==
    (Handled /\ last.internalFile = Absent /\ last.externalFile = Absent)
        => (last.response.status = 404 /\ last.invoked = "none")

\* C5 (as claimed): whatever the plugin's entry function raises, the
\* handler answers 500 carrying the exception's message.
C5_PluginExceptionAnswers500 ==
    (Handled /\ last.outcome.t = "raise")
        => (last.response.status = 500 /\ last.response.cause = last.outcome.msg)

\* C6 (as claimed): for every value a sink plugin returns, the 200
\* response has status "success", names the sink and carries the returned
\* value unchanged as its result.
C6_ResultUnchanged ==
    (Handled /\ service = "sink" /\ last.outcome.t = "return"
        /\ last.response.status = 200)
        => /\ last.response.body.status = "success"
           /\ last.response.body.sink = last.id
           /\ last.response.body.result = JsonDumps(last.outcome.v)

\* C6 (amended): a truthy, JSON-serializable value returned by a sink
\* plugin is answered 200 with status "success", the sink id and the JSON
\* encoding of that value as result; a falsy value (None, an empty dict)
\* is answered 200 with the fixed text "Event sent to destination" as
\* result.
C6_TruthyResultUnchanged ==
    (Handled /\ service = "sink" /\ last.outcome.t = "return")
        => LET v == last.outcome.v
               r == last.response IN
           /\ (Truthy(v) /\ JsonDumps(v) # "TypeError")
                => /\ r.status = 200
                   /\ r.body.status = "success"
                   /\ r.body.sink = last.id
                   /\ r.body.result = JsonDumps(v)
           /\ ~Truthy(v)
                => /\ r.status = 200
                   /\ r.body.status = "success"
                   /\ r.body.sink = last.id
                   /\ r.body.result = JsonDumps(DefaultResult)

\* C6 witness: a sink plugin returned a non-empty dict and the response
\* carries it.
C6_Witness ==
    /\ Handled /\ service = "sink" /\ last.outcome.t = "return"
    /\ last.outcome.v = "{'sent': True}"
    /\ last.response.status = 200
    /\ last.response.body.result = "{\"sent\": true}"

\* C7: when the identifier names a module in the built-in and in the
\* override directory, the import finds the built-in file, the module
\* invoked is the built-in one and the override one is never invoked, on
\* the first request (not cached) and on later ones (cached).
C7_BuiltInWins ==
    (Handled /\ last.internalFile # Absent /\ last.externalFile # Absent)
        => /\ last.found = "internal"
           /\ last.invoked # "external"
           /\ (last.internalFile = PluginModule => last.invoked = "internal")

\* C7 witness: the override directory is on sys.path and holds a loadable
\* plugin of the same name as a built-in one; a later request (served from
\* sys.modules) invoked the built-in module.
C7_Witness ==
    /\ Handled /\ last.internalFile = PluginModule
    /\ last.externalFile = PluginModule
    /\ Len(sysPath) = 3
    /\ last.cached
    /\ last.invoked = "internal"

\* C8 (as claimed): a module that exists but fails to initialize is
\* answered 500 with the cause, never 404; a module that loads but lacks
\* the entry function is answered 500 with a diagnostic of its own, and
\* nothing is invoked.
C8_LoadErrorIs500 ==
    (Handled /\ last.found # "none")
        => /\ last.file.load # "ok"
                => /\ last.response.status = 500
                   /\ last.response.error = "load_failed"
                   /\ last.response.cause = last.file.load
           /\ (last.file.load = "ok" /\ ~last.file.entry)
                => /\ last.response.status = 500
                   /\ last.response.error = "no_entry"
                   /\ last.invoked = "none"

(***************************************************************************)
(*                  PROPERTIES OF THE RETRYING DELIVERY                    *)
(***************************************************************************)

\* The first n outcomes are failures.
AllFailed(n) == \A i \in 1..n : rOutcomes[i] \in Failures

\* <<1, 2, 4, ..., 2^(k-1)>>
PowersOfTwo(k) == [i \in 1..k |-> 2 ^ (i - 1)]

\* C2: when the outbound call failed on the first k attempts, k below
\* retry_count, and then succeeded, the invocation returned success, made
\* exactly k+1 requests and slept 1, 2, 4, ..., 2^(k-1) seconds in order.
C2_SucceedsAfterKFailures ==
    \A k \in 0..MaxRetryCount :
        (/\ Len(rOutcomes) = k + 1
         /\ AllFailed(k)
         /\ rOutcomes[k + 1] = "ok"
         /\ k < rRetryCount)
            => /\ rPc = "returned"
               /\ rResult.kind = "success"
               /\ rResult.attempt = k + 1
               /\ rSent = k + 1
               /\ rSleeps = PowersOfTwo(k)

\* C2 witness: two failures, then success on the third attempt, after
\* sleeps of 1 and 2 seconds.
C2_Witness ==
    /\ rPc = "returned"
    /\ Len(rOutcomes) = 3
    /\ rSent = 3
    /\ rSleeps = <<1, 2>>

\* C3: when retry_count >= 1 requests failed in a row, the invocation
\* ends with the terminal RuntimeError, which carries the cause of the
\* last failed attempt; a terminal RuntimeError after failed attempts
\* always carries the last cause; and never more than retry_count requests
\* are issued.
C3_ExhaustionCarriesLastCause ==
    /\ rRetryCount >= 1 => rSent <= rRetryCount
    /\ (rRetryCount >= 1 /\ Len(rOutcomes) = rRetryCount /\ AllFailed(rRetryCount))
          => /\ rPc \in {"loop", "raised"}
             /\ rAttempt = rRetryCount
             /\ rPc = "raised"
                   => /\ rResult.kind = "RuntimeError"
                      /\ rResult.cause = rOutcomes[rRetryCount]
    /\ (rPc = "raised" /\ rResult.kind = "RuntimeError" /\ rOutcomes # <<>>)
          => /\ Len(rOutcomes) = rRetryCount
             /\ rResult.cause = rOutcomes[Len(rOutcomes)]

\* C3 witness: three attempts failed with different causes and the error
\* raised carries the third.
C3_Witness ==
    /\ rPc = "raised"
    /\ rRetryCount = 3
    /\ rOutcomes = <<"Timeout", "HTTP 503", "ConnectionError">>
    /\ rResult = [kind |-> "RuntimeError", cause |-> "ConnectionError", attempt |-> 0]

\* C4 (as claimed): a 4xx response ends the invocation at once: it is the
\* last request issued, no backoff sleep follows it, and the invocation
\* has failed.
C4_ClientErrorShortCircuits ==
    \A i \in 1..Len(rOutcomes) :
        IsClientError(rOutcomes[i])
            => /\ Len(rOutcomes) = i
               /\ rSent = i
               /\ Len(rSleeps) < i
               /\ rPc \in {"loop", "raised"}
               /\ rPc = "loop" => ~LoopContinues(rAttempt, rRetryCount)

(***************************************************************************)
(*                PROPERTIES OF THE PROVISIONING WORKFLOW                  *)
(***************************************************************************)

Called == pPc # "idle"

\* The properties pass lines 78-94: an api-key, and a timeout and a
\* retry-count that are integers.
WellConfigured ==
    /\ pProps.apiKey # None
    /\ pProps.timeout = "30"
    /\ pProps.retryCount = "3"

\* Event types that do not begin with 'checkout.transaction': strings
\* (or no eventType at all), and with them the value that is no string.
NonCheckoutStrings == {"<absent>", "login"}
NonCheckoutValues == NonCheckoutStrings \cup {"<null>"}

\* The invocation ended, or will end, as the no-op of the given reason:
\* it is before the step that decides (pcs), or it returned the no-op; it
\* raised nothing and made no request to the backend.
NoOpOutcome(pcs, reason) ==
    /\ pPc \in pcs \cup {"returned"}
    /\ pPc = "returned" => pResult = NoOp(reason)
    /\ bCalls = <<>>
    /\ bLicensees = <<>>
    /\ bLicenses = <<>>

\* C9 (as claimed): for every event whose eventType does not begin with
\* the checkout-transaction prefix, process returns the no-op result with
\* its reason (processed = false), raises no error and makes no call to
\* the backend.
C9_NonCheckoutIsNoOp ==
    (Called /\ pEventType \in NonCheckoutValues)
        => NoOpOutcome({"configure", "filter"}, "not a checkout transaction event")

\* C9 (amended): when the properties carry an api-key and integer timeout
\* and retry-count, for every event whose eventType is absent or a string
\* that does not begin with the checkout-transaction prefix, process
\* returns the no-op result with its reason, raises no error and makes no
\* call to the backend.
C9_WellConfiguredNonCheckoutIsNoOp ==
    (Called /\ WellConfigured /\ pEventType \in NonCheckoutStrings)
        => NoOpOutcome({"configure", "filter"}, "not a checkout transaction event")

\* C9 witness: a login event, with valid properties, returned the no-op.
C9_Witness ==
    /\ pPc = "returned"
    /\ WellConfigured
    /\ pEventType = "login"
    /\ pItems # <<>>
    /\ pTransaction = "COMPLETED"
    /\ pResult = NoOp("not a checkout transaction event")

\* Statuses other than COMPLETED of a transaction the event carries.
NotCompleted == {"", "PENDING"}

\* C10 (as claimed): for every checkout-transaction event whose
\* transaction status is not COMPLETED, process returns the no-op result
\* with its reason, and no licensee and no license is created.
C10_NotCompletedIsNoOp ==
    (Called /\ pEventType = "checkout.transaction.completed"
        /\ pTransaction \in NotCompleted)
        => NoOpOutcome({"configure", "filter", "gate"},
                       "transaction status is not COMPLETED")

\* C10 (amended): when the properties carry an api-key and integer timeout
\* and retry-count, for every checkout-transaction event that carries a
\* transaction whose status is not COMPLETED, process returns the no-op
\* result with its reason, and no licensee and no license is created.
C10_WellConfiguredNotCompletedIsNoOp ==
    (Called /\ WellConfigured /\ pEventType = "checkout.transaction.completed"
        /\ pTransaction \in NotCompleted)
        => NoOpOutcome({"configure", "filter", "gate"},
                       "transaction status is not COMPLETED")

\* C10 witness: a PENDING checkout transaction with items returned the
\* no-op.
C10_Witness ==
    /\ pPc = "returned"
    /\ WellConfigured
    /\ pEventType = "checkout.transaction.completed"
    /\ pTransaction = "PENDING"
    /\ pItems # <<>>
    /\ pResult = NoOp("transaction status is not COMPLETED")

\* A checkout event with a COMPLETED transaction.
CompletedCheckout ==
    /\ Called
    /\ pEventType = "checkout.transaction.completed"
    /\ pTransaction = "COMPLETED"

\* C11: a COMPLETED transaction whose purchase order has no line item ends
\* in a terminal error (with valid properties: ValueError 'Purchase order
\* has no items'), never in a result, and no request is sent to the
\* backend before that error.
C11_EmptyOrderIsTerminalError ==
    (CompletedCheckout /\ pItems = <<>>)
        => /\ pPc \in {"configure", "filter", "gate", "validate", "raised"}
           /\ bCalls = <<>>
           /\ (pPc = "raised" /\ WellConfigured)
                => pResult = Raised("ValueError", "Purchase order has no items")

\* C11 witness: the empty purchase order of a COMPLETED transaction was
\* rejected by the validation.
C11_Witness ==
    /\ CompletedCheckout
    /\ WellConfigured
    /\ pItems = <<>>
    /\ pPc = "raised"
    /\ pResult = Raised("ValueError", "Purchase order has no items")
    /\ bCalls = <<>>

\* process went through the item loop and ended (returned or raised).
LoopEnded ==
    /\ CompletedCheckout
    /\ WellConfigured
    /\ pItems # <<>>
    /\ pPc \in {"returned", "raised"}

\* The SKUs of the recorded per-item errors, in order.
ErrorSkus == [i \in 1..Len(pErrors) |-> pErrors[i].item_sku]

\* The items that failed are those with a recorded error: each item ends
\* either in one error or in success.
SomeItemSucceeded == Len(pErrors) < Len(pItems)

\* C12: a failure while processing one item does not abort the loop: every
\* item is visited, in order, and when at least one other item succeeds
\* the overall result is success with exactly one recorded error per
\* failed item, naming its SKU and cause.
C12_FailedItemDoesNotFailOrder ==
    LoopEnded
        => /\ pIdx = Len(pItems) + 1
           /\ \A i, j \in 1..Len(pErrors) :
                i < j => \E a, b \in 1..Len(pItems) :
                            /\ a < b
                            /\ pItems[a].sku = ErrorSkus[i]
                            /\ pItems[b].sku = ErrorSkus[j]
           /\ (pErrors # <<>> /\ SomeItemSucceeded)
                => /\ pPc = "returned"
                   /\ pResult.processed
                   /\ pResult.errors = PyList(pErrors)

\* The item's product and license template numbers resolve (its own or
\* the configured default).
Resolvable(item) ==
    /\ item.product # None \/ pProps.defaultProduct # None
    /\ item.template # None \/ pProps.defaultTemplate # None

\* process ended for a purchase order of one resolvable item, and no
\* request to the backend failed.
OneItemEnded ==
    /\ LoopEnded
    /\ Len(pItems) = 1
    /\ Resolvable(pItems[1])
    /\ bFailed = {}

\* No license is attached to the licensee the item referenced: it was not
\* reused.
ExistingNotUsed ==
    \A i \in 1..Len(bLicenses) : bLicenses[i].licensee # ExistingLicensee

\* C13: without the quantity-to-licensee flag, an item of quantity q >= 1
\* with no reusable existing licensee and no backend failure creates
\* exactly one licensee and exactly q licenses, all owned by that licensee;
\* the result reports 1 unique licensee and q license numbers, one per
\* unit.
C13_OneLicenseeForAllUnits ==
    /\ (OneItemEnded /\ ~pProps.quantityToLicensee /\ ExistingNotUsed)
        => /\ pPc = "returned"
           /\ pResult.processed
           /\ Len(bLicensees) = 1
           /\ Len(bLicenses) = pItems[1].quantity
           /\ \A i \in 1..Len(bLicenses) : bLicenses[i].licensee = 1
           /\ pResult.licensees_created = 1
           /\ pResult.licensee_numbers = {1}
           /\ pResult.licenses_created = pItems[1].quantity
           /\ pResult.license_numbers = [i \in 1..pItems[1].quantity |-> i]
    \* while the item is being processed, whatever came before it
    /\ (/\ pPc \in {"unit", "get_template", "create_license"}
        /\ ~pProps.quantityToLicensee
        /\ pItem.licensee # <<ExistingLicensee>>)
        => /\ Len(pItem.licensees) <= 1
           /\ pItem.licensees = pItem.licensee
           /\ Len(pItem.licenses) = pItem.unit
           /\ \A i \in 1..Len(pItem.licenses) :
                bLicenses[pItem.licenses[i]].licensee = pItem.licensees[1]

\* C13 witness: one item of the largest quantity, no flag, no licensee
\* referenced: one licensee and MaxQuantity licenses.
C13_Witness ==
    /\ OneItemEnded
    /\ ~pProps.quantityToLicensee
    /\ pItems[1].licensee = <<>>
    /\ pItems[1].quantity = MaxQuantity
    /\ pPc = "returned"
    /\ pResult.licensees_created = 1
    /\ pResult.licenses_created = MaxQuantity
    /\ Len(bLicensees) = 1

\* C14: with quantity-to-licensee, an item of quantity q >= 1 and no
\* backend failure creates exactly q licensees and q licenses, the i-th
\* license owned by the i-th new licensee; a licensee the item references
\* is neither fetched nor reused.
C14_OneLicenseePerUnit ==
    /\ (OneItemEnded /\ pProps.quantityToLicensee)
        => /\ pPc = "returned"
           /\ pResult.processed
           /\ Len(bLicensees) = pItems[1].quantity
           /\ Len(bLicenses) = pItems[1].quantity
           /\ \A i \in 1..Len(bLicenses) : bLicenses[i].licensee = i
           /\ pResult.licensees_created = pItems[1].quantity
           /\ pResult.licenses_created = pItems[1].quantity
    /\ (Called /\ pProps.quantityToLicensee)
        => /\ \A i \in 1..Len(bCalls) : bCalls[i] # "get_licensee"
           /\ ExistingNotUsed

\* C14 witness: an item that references an existing licensee, processed
\* with the flag: MaxQuantity licensees and licenses.
C14_Witness ==
    /\ OneItemEnded
    /\ pProps.quantityToLicensee
    /\ pItems[1].licensee = <<ExistingLicensee>>
    /\ pItems[1].quantity = MaxQuantity
    /\ pPc = "returned"
    /\ Len(bLicensees) = MaxQuantity
    /\ Len(bLicenses) = MaxQuantity

AllItemsFailedRaised ==
    /\ pPc = "raised"
    /\ pResult.kind = "RuntimeError"
    /\ pResult.reason = "Failed to process all items"

\* C15: process raises the 'all items failed' error if and only if every
\* item failed; whenever at least one item was processed successfully
\* (also one whose licenses went to a reused licensee, so that no
\* licensee was created) process returns a success result.
C15_RaisesIffEveryItemFailed ==
    LoopEnded
        => /\ AllItemsFailedRaised <=> Len(pErrors) = Len(pItems)
           /\ SomeItemSucceeded => (pPc = "returned" /\ pResult.processed)

\* The success result.
Succeeded == LoopEnded /\ pPc = "returned" /\ pResult.processed

\* C16 (as claimed): in the success result the errors field is always a
\* list of per-item errors, the empty list when no item failed.
C16_ErrorsIsAlwaysAList ==
    Succeeded
        => /\ pResult.errors.type = "list"
           /\ pResult.errors.value = pErrors

\* C16 (amended): in the success result the errors field is the list of
\* the per-item errors, one per failed item, when an item failed, and
\* None when no item failed.
C16_ErrorsIsListOrNone ==
    Succeeded
        => IF pErrors = <<>>
           THEN pResult.errors = PyNone
           ELSE /\ pResult.errors = PyList(pErrors)
                /\ Len(pResult.errors.value) < Len(pItems)

\* C16 witness: every item succeeded and the errors field is None.
C16_Witness ==
    /\ Succeeded
    /\ Len(pItems) = MaxItems
    /\ pErrors = <<>>
    /\ pResult.errors = PyNone
    /\ pResult.licenses_created >= MaxItems

\* _process_item is in its quantity loop for item pIdx.
InQuantityLoop == pPc \in {"unit", "get_template", "create_license"}

\* The licenses created so far for the current item are all owned by the
\* given licensee.
ItemLicensesOwnedBy(licensee) ==
    \A i \in 1..Len(pItem.licenses) :
        bLicenses[pItem.licenses[i]].licensee = licensee

\* C17: when an item references an existing licensee and
\* quantity-to-licensee is not set, the licensee is fetched; if it belongs
\* to the item's resolved product, no licensee is created for the item and
\* all its licenses are owned by the fetched licensee; if it belongs to a
\* different product it is discarded, a licensee is created, and no
\* license of the item is attached to the discarded licensee.
C17_ExistingLicenseeReusedOnlyForSameProduct ==
    (/\ InQuantityLoop
     /\ ~pProps.quantityToLicensee
     /\ pItems[pIdx].licensee = <<ExistingLicensee>>)
        => /\ pItem.fetched # "not fetched"
           /\ Len(pItem.licenses) = pItem.unit
           /\ pItem.fetched = pItem.product
                => /\ pItem.licensees = <<>>
                   /\ pItem.licensee = <<ExistingLicensee>>
                   /\ ItemLicensesOwnedBy(ExistingLicensee)
           /\ pItem.fetched # pItem.product
                => /\ pItem.licensee # <<ExistingLicensee>>
                   /\ pItem.licensees = pItem.licensee
                   /\ pItem.unit >= 1 => Len(pItem.licensees) = 1
                   /\ \A i \in 1..Len(pItem.licenses) :
                        /\ bLicenses[pItem.licenses[i]].licensee # ExistingLicensee
                        /\ bLicenses[pItem.licenses[i]].licensee = pItem.licensees[1]

\* C17 witness: the referenced licensee belongs to another product; all
\* units of the item were licensed to one newly created licensee.
C17_Witness ==
    /\ InQuantityLoop
    /\ ~pProps.quantityToLicensee
    /\ pItems[pIdx].licensee = <<ExistingLicensee>>
    /\ pItem.fetched = "P2"
    /\ pItem.product = "P1"
    /\ pItem.unit = MaxQuantity
    /\ Len(pItem.licensees) = 1
    /\ ItemLicensesOwnedBy(pItem.licensees[1])

\* C18: every terminal failure of a backend call is surfaced, as the error
\* process raises or as a recorded per-item error; and the only results
\* reported without delivery are the two no-op short-circuits.
C18_TerminalFailuresSurfaced ==
    (Called /\ pPc \in {"returned", "raised"})
        => /\ bFailed # {}
                => \/ pPc = "raised"
                   \/ /\ pResult.errors.type = "list"
                      /\ pResult.errors.value # <<>>
           /\ (pPc = "returned" /\ ~pResult.processed)
                => /\ pResult.reason \in {"not a checkout transaction event",
                                          "transaction status is not COMPLETED"}
                   /\ bCalls = <<>>

(***************************************************************************)
(*                     PROPERTIES OF THE PLUGIN CACHE                      *)
(***************************************************************************)

\* C19: after the first successful resolution of an identifier, every
\* later resolution in the same process returns the same loaded plugin:
\* the entry of the cache is never invalidated or replaced, and a request
\* for a cached identifier is served from it without searching or
\* executing a file again, whatever the directories hold by then.
C19_CacheNeverInvalidated ==
    [][\A id \in AllIds :
        sysModules[id] # NotLoaded
            => /\ sysModules'[id] = sysModules[id]
               /\ (last' # last /\ last'.id = id)
                    => /\ last'.cached
                       /\ last'.file = sysModules[id].module
                       /\ last'.found = sysModules[id].origin
                       /\ last'.invoked \in {"none", sysModules[id].origin}]_vars

\* C19 witness: a request was served by the cached module of the override
\* directory after the operator had replaced or removed the file.
C19_Witness ==
    /\ last.cached
    /\ last.found = "external"
    /\ last.invoked = "external"
    /\ last.file = PluginModule
    /\ externalDir[last.id] # last.file
    /\ sysModules[last.id] = [origin |-> "external", module |-> PluginModule]
    /\ last.response.status = 200

(***************************************************************************)
(*                  PROPERTIES OF THE ORDER OF RETRIES                     *)
(***************************************************************************)

\* C20: within one invocation the retries are strictly sequential: at most
\* one outbound attempt is in flight at any time, and attempt N+1 starts
\* only when the outcome of each of the N earlier attempts is known and
\* the sleep that followed each of them has returned.
C20_RetriesAreSequential ==
    /\ [](rSent - Len(rOutcomes) \in {0, 1})
    /\ [](rPc = "sleep" => rSent = Len(rOutcomes))
    /\ [][rSent' # rSent
            => /\ rSent' = rSent + 1
               /\ Len(rOutcomes) = rSent
               /\ \A i \in 1..rSent : rOutcomes[i] \in Failures
               /\ rPc \notin {"sleep", "inflight"}
               /\ Len(rSleeps) = rSent]_vars

\* C20 witness: the third attempt is in flight, after two failures and
\* the two sleeps that followed them.
C20_Witness ==
    /\ rPc = "inflight"
    /\ rSent = 3
    /\ Len(rOutcomes) = 2
    /\ rSleeps = <<1, 2>>

(***************************************************************************)
(*                            TERMINATION                                  *)
(***************************************************************************)

\* The retry budget of one delivery: retry_count attempts, none when the
\* count is not positive.
Budget == IF rRetryCount > 0 THEN rRetryCount ELSE 0

\* The backend calls a purchase order can cause: for each item one fetch
\* of the referenced licensee and, for each unit, the creation of a
\* licensee, the fetch of the template and the creation of the license.
CallBudget == Len(pItems) * (1 + 3 * MaxQuantity)

\* C21: once started, an invocation always terminates: a delivery and a
\* provisioning over a finite purchase order eventually end with a result
\* or an error, after a number of attempts bounded by the retry budget
\* (a number of backend calls bounded by the purchase order).
C21_InvocationTerminates ==
    /\ [](rSent <= Budget)
    /\ [](Len(bCalls) <= CallBudget)
    /\ (rPc # "idle" \/ pPc # "idle")
            ~> (rPc \in {"returned", "raised"} \/ pPc \in {"returned", "raised"})

\* C21 witness: a delivery ended by exhausting a budget of MaxRetryCount
\* attempts.
C21_Witness ==
    /\ rPc = "raised"
    /\ rRetryCount = MaxRetryCount
    /\ rSent = MaxRetryCount
    /\ rResult.kind = "RuntimeError"
    /\ pPc = "idle"

(***************************************************************************)
(*                 WHAT PROVISIONING CREATES AND REPORTS                   *)
(***************************************************************************)

\* C24: whenever process returns a success result, every licensee and
\* every license created in the backend during the invocation is listed in
\* licensee_numbers / license_numbers, also those created for an item
\* that failed later in its quantity loop.
C24_ResultListsEverythingCreated ==
    Succeeded
        => /\ pResult.licensee_numbers = 1..Len(bLicensees)
           /\ Range(pResult.license_numbers) = 1..Len(bLicenses)

\* The owner of a license of the backend.
Owner(number) == bLicenses[number].licensee

\* C25: every license created for an item is owned by a licensee of the
\* item's resolved product, created by the workflow or fetched and
\* reused; a fetched licensee of another product, or of no known product,
\* never receives a license.
C25_LicensesOwnedByLicenseeOfProduct ==
    InQuantityLoop
        => /\ \A i \in 1..Len(pItem.licenses) :
                IF Owner(pItem.licenses[i]) = ExistingLicensee
                THEN pItem.fetched = pItem.product
                ELSE /\ Owner(pItem.licenses[i]) \in 1..Len(bLicensees)
                     /\ bLicensees[Owner(pItem.licenses[i])] = pItem.product
           /\ pItem.fetched \in {"P2", None}
                => \A n \in 1..Len(bLicenses) : Owner(n) # ExistingLicensee

\* C25 witness: the fetched licensee has no product association; every
\* unit of the item was licensed to a licensee created for the product.
C25_Witness ==
    /\ InQuantityLoop
    /\ pItem.fetched = None
    /\ pItem.product = "P1"
    /\ pItem.unit = MaxQuantity
    /\ Len(pItem.licenses) = MaxQuantity
    /\ \A i \in 1..Len(pItem.licenses) :
            bLicensees[Owner(pItem.licenses[i])] = "P1"

\* The success result of an order of the one item D whose units all went
\* to one newly created licensee.
ResultOfOneNewLicensee ==
    [kind |-> "returned", processed |-> TRUE, reason |-> None,
     licensees_created |-> 1, licensee_numbers |-> {1},
     licenses_created |-> MaxQuantity,
     license_numbers |-> [i \in 1..MaxQuantity |-> i],
     errors |-> PyNone]

\* C26: when the fetch of the referenced licensee fails, the item is not
\* recorded as failed: the failure is dropped, a licensee is created for
\* the item's product, all licenses of the item are attached to it, and
\* the result is the one of the other-product branch.
C26_FailedFetchFallsBackToNewLicensee ==
    /\ [][(pPc = "get_licensee" /\ pItem'.fetched = "fail")
            => /\ pErrors' = pErrors
               /\ pIdx' = pIdx
               /\ pPc' = "unit"
               /\ pItem'.licensee = <<>>]_vars
    /\ []((InQuantityLoop /\ pItem.fetched = "fail")
            => /\ pItem.licensee # <<ExistingLicensee>>
               /\ pItem.licensees = pItem.licensee
               /\ \A i \in 1..Len(pItem.licensees) :
                    bLicensees[pItem.licensees[i]] = pItem.product
               /\ \A i \in 1..Len(pItem.licenses) :
                    Owner(pItem.licenses[i]) = pItem.licensees[1])
    /\ []((/\ Succeeded
           /\ Len(pItems) = 1
           /\ pItems[1].sku = "D"
           /\ ~pProps.quantityToLicensee
           /\ Len(bLicensees) = 1)
            => pResult = ResultOfOneNewLicensee)

\* C26 witness: the fetch failed, and the order of the one item ended
\* with the success result of a new licensee and no error.
C26_Witness ==
    /\ Succeeded
    /\ Len(pItems) = 1
    /\ pItems[1].sku = "D"
    /\ "get_licensee" \in bFailed
    /\ bCalls[1] = "get_licensee"
    /\ bLicensees = <<"P1">>
    /\ \A n \in 1..Len(bLicenses) : Owner(n) = 1
    /\ pResult = ResultOfOneNewLicensee

(***************************************************************************)
(*              THE BACKOFF SCHEDULE AND THE RETRY COUNT                   *)
(***************************************************************************)

RECURSIVE Sum(_)
\* The sum of a sequence of numbers.
Sum(seq) == IF seq = <<>> THEN 0 ELSE seq[1] + Sum(Tail(seq))

\* The invocation ended with the terminal delivery error.
Exhausted == rPc = "raised" /\ rResult.kind = "RuntimeError"

\* C27: after failed attempt number i (0-based) with i < retry_count - 1
\* the loop sleeps exactly 2^i seconds before the next attempt; after the
\* final failed attempt it raises without sleeping; the sleeps of an
\* exhausted budget add up to 2^(retry_count - 1) - 1 seconds.
C27_BackoffSchedule ==
    /\ [][(rPc = "inflight" /\ Len(rOutcomes') = Len(rOutcomes) + 1
                /\ rOutcomes'[Len(rOutcomes')] \in Failures)
            => LET i == Len(rOutcomes) IN
               IF i < rRetryCount - 1
               THEN /\ rSleeps' = Append(rSleeps, 2 ^ i)
                    /\ rPc' = "sleep"
                    /\ rSent' = rSent
               ELSE /\ rSleeps' = rSleeps
                    /\ rPc' = "loop"]_vars
    /\ [][rPc' = "raised" => rSleeps' = rSleeps]_vars
    /\ [][rSent' # rSent => Len(rSleeps) = rSent]_vars
    /\ []((Exhausted /\ rOutcomes # <<>>)
            => /\ Len(rSleeps) = rRetryCount - 1
               /\ Sum(rSleeps) = 2 ^ (rRetryCount - 1) - 1)

\* C27 witness: a budget of MaxRetryCount attempts exhausted after sleeps
\* of 1 and 2 seconds.
C27_Witness ==
    /\ Exhausted
    /\ rRetryCount = 3
    /\ Len(rOutcomes) = 3
    /\ rSleeps = <<1, 2>>
    /\ Sum(rSleeps) = 3

\* The configuration apart from the retry count is valid.
ValidMethod == rClient = "netlicensing" \/ rMethod \in {"POST", "GET"}

\* C28: for every retry count, 0 and negative values included, a delivery
\* with otherwise valid configuration makes at least one outbound attempt
\* before it reports failure, and a reported failure carries the cause of
\* a real failed attempt.
C28_FailureFollowsARealAttempt ==
    (rPc = "raised" /\ ValidMethod)
        => /\ rSent >= 1
           /\ rResult.cause \in Failures

\* C29: a webhook delivery with a method other than GET or POST fails on
\* the first iteration with the configuration error: no request is sent,
\* no sleep happens and no further attempt is made, whatever the retry
\* count.
C29_UnsupportedMethodIsConfigurationError ==
    (rClient = "webhook" /\ rMethod \notin {"POST", "GET"} /\ rPc # "idle")
        => /\ rSent = 0
           /\ rSleeps = <<>>
           /\ rAttempt = 0
           /\ rPc \in {"loop", "raised"}
           /\ rPc = "raised" => rResult.kind = "ValueError"

(***************************************************************************)
(*                       LISTING AND DISPATCH                              *)
(***************************************************************************)

\* C30: listing and dispatch agree: each identifier appears at most once
\* in the list of GET /sinks (GET /transformers), and dispatching a listed
\* identifier invokes the module of the listed origin, also when the same
\* identifier exists in the built-in and in the override directory.
C30_ListingAgreesWithDispatch ==
    service # "none"
        => /\ \A e1, e2 \in ListPlugins : e1.id = e2.id => e1 = e2
           /\ \A e \in ListPlugins :
                LET imp == ImportModule(e.id) IN
                (imp.exc = "none" /\ imp.loaded.module.entry)
                    => imp.loaded.origin = e.type

(***************************************************************************)
(*                 PROPERTIES OF CONCURRENT RESOLUTION                     *)
(***************************************************************************)

\* The requests that called an entry function.
Invokers == {t \in Tasks : qInvoked[t] # NothingImported}

\* C22: when several requests resolve the same identifier that is not
\* cached yet, the module loaded by the first request that completes its
\* import becomes the cached value, every racing request invokes that
\* same module, and no request gets or invokes a partially initialized
\* module.
C22_RacingRequestsShareOneModule ==
    /\ qLoads <= 1
    /\ \A t \in Tasks :
            /\ qImported[t].state # "partial"
            /\ qInvoked[t].state # "partial"
    /\ \A t \in Invokers :
            /\ qEntry.state = "ready"
            /\ qInvoked[t] = qEntry
    /\ qEntry.state = "ready"
            => /\ qLoads = 1
               /\ qImported[qEntry.loader] = qEntry
    /\ qEntry.state = "partial"
            => /\ qRunning = qEntry.loader
               /\ qPc[qEntry.loader] = "exec"

\* C22 witness: all requests were pending when the first of them began
\* to load the plugin, and each of them invoked the module that one
\* loaded.
C22_Witness ==
    /\ qRacing = Tasks
    /\ Invokers = Tasks
    /\ \A t \in Tasks : qPc[t] = "done" /\ qInvoked[t] = qEntry
    /\ qEntry.state = "ready"
    /\ qLoads = 1

(***************************************************************************)
(*                  PROPERTIES OF LICENSE CREATION                         *)
(***************************************************************************)

\* The license was created: the one POST license and its data.
LicenseCreated == lPc = "returned"

\* C23: a call creates exactly one license against the resolved
\* template; the license carries startDate 'now' when the template's type
\* is TIMEVOLUME; every field of the allow-list present in the item's
\* metadata is copied onto the license, the item's startDate taking
\* precedence over 'now'; no metadata key outside the allow-list is copied.
C23_LicenseFields ==
    LicenseCreated
        => /\ Len(lPosted) = 1
           /\ lPosted[1]["licenseTemplateNumber"] = PyStr("LT1")
           /\ (lTemplateType = "TIMEVOLUME" /\ lExtra["startDate"] = Missing)
                => lPosted[1]["startDate"] = PyStr("now")
           /\ \A i \in 1..Len(AllowList) :
                lExtra[AllowList[i]] # Missing
                    => lPosted[1][AllowList[i]] = Str(lExtra[AllowList[i]])
           /\ lPosted[1]["licenseeNumber"] = PyStr("L1")
           /\ lPosted[1]["active"] = PyStr("true")

============================================================================
